---- MODULE Spec2Model ----
(***************************************************************************)
(* Model of features/update_features.py: the per-branch feature scraper    *)
(* (scrape_features), its helpers and the run loop of main().              *)
(*                                                                         *)
(* Text is a sequence of one-character strings, so that the string         *)
(* operations of the program (startswith, split, replace, strip, the       *)
(* "%s" search) are computed and not assumed.  Python's None is the value  *)
(* None below.  A Python dict is a sequence of <<key, value>> pairs with   *)
(* distinct keys, in insertion order (the order json.dump writes).         *)
(***************************************************************************)
EXTENDS Naturals, Sequences, FiniteSets, TLC

VARIABLES
    pc,              \* position of the process in main() / scrape_features()
    branches,        \* main: the list of branch names (here 1..n, as a count)
    bi,              \* main: index of the branch of the `for branch` loop
    disk,            \* the file replacements.json
    replacements,    \* main: the in-memory replacement store
    files,           \* the directory branches/: the branches that have a file
    remote,          \* the remote repositories at the branch being scraped
    main_preferences,        \* scrape_features locals, as named in the code
    strings_dict,
    fallback_strings,
    fi,                      \* index in the list of fallback files
    mi,                      \* index of `for main_pref in main_preferences`
    processed_categories_data,
    output_data_for_branch,
    ci, si, pi,              \* indices of the loops over main_cat, sub_cat, pref
    current_main_cat_entry,
    sub_cat_features,
    reply,           \* the text input() returned last (line 176)
    fetched,         \* the category keys whose fragment this call has requested
    skipped,         \* history: the keys an empty reply was given for in this run
    snoozed,         \* history: those of them no later reply has recorded
    raw_text,        \* clean_xml_comments: the text it is given
    clean_text       \* clean_xml_comments: what it returned

vars == <<pc, branches, bi, disk, replacements, files, remote,
          main_preferences, strings_dict, fallback_strings, fi, mi,
          processed_categories_data, output_data_for_branch, ci, si, pi,
          current_main_cat_entry, sub_cat_features, reply, fetched,
          skipped, snoozed, raw_text, clean_text>>

\* the text clean_xml_comments is applied to on its own, and its result
TextVars == <<raw_text, clean_text>>

-----------------------------------------------------------------------------
(* Text *)

None == <<"None">>

EmptyStr == <<>>

Space == <<" ">>

\* "@string/", the marker of a string-table reference (line 59)
StringSigil == <<"@", "s", "t", "r", "i", "n", "g", "/">>

\* the two-character text backslash-n that strings.xml uses for a line break
EscapedNewline == <<"\\", "n">>

\* the two-character text backslash-apostrophe
EscapedQuote == <<"\\", "'">>

Apostrophe == <<"'">>

\* the pattern of re.search at line 171
FormatPlaceholder == <<"%", "s">>

AboutKey == <<"a", "b", "o", "u", "t">>

\* the key "summary" of a category's entry (line 158)
SummaryField == <<"s", "u", "m", "m", "a", "r", "y">>

\* str.startswith
StartsWith(s, p) == Len(s) >= Len(p) /\ SubSeq(s, 1, Len(p)) = p

\* position of the first occurrence of p in s, 0 when there is none
FindFirst(s, p) ==
    LET hits == {i \in 1..(Len(s) + 1 - Len(p)) : SubSeq(s, i, i + Len(p) - 1) = p}
    IN IF Len(p) > Len(s) \/ hits = {} THEN 0
       ELSE CHOOSE i \in hits : \A j \in hits : i <= j

\* re.search(p, s) for a pattern without metacharacters
Contains(s, p) == FindFirst(s, p) # 0

\* s.split(p)[0]
BeforeFirst(s, p) ==
    IF FindFirst(s, p) = 0 THEN s ELSE SubSeq(s, 1, FindFirst(s, p) - 1)

\* s.split(p, 1)[1], for s that contains p
AfterFirst(s, p) == SubSeq(s, FindFirst(s, p) + Len(p), Len(s))

\* s.replace(p, r): every non-overlapping occurrence, left to right
RECURSIVE ReplaceAll(_, _, _)
ReplaceAll(s, p, r) ==
    IF FindFirst(s, p) = 0 THEN s
    ELSE SubSeq(s, 1, FindFirst(s, p) - 1) \o r
         \o ReplaceAll(AfterFirst(s, p), p, r)

\* str.strip(): leading and trailing white space removed
RECURSIVE LStrip(_)
LStrip(s) == IF s # <<>> /\ Head(s) = " " THEN LStrip(Tail(s)) ELSE s

RECURSIVE RStrip(_)
RStrip(s) ==
    IF s # <<>> /\ s[Len(s)] = " " THEN RStrip(SubSeq(s, 1, Len(s) - 1)) ELSE s

\* Strip that leaves the white space where it is
Strip_Nothing(s) == s

Strip(s) == RStrip(LStrip(s))

\* truth value of a Python str-or-None
Truthy(s) == s # None /\ s # EmptyStr

-----------------------------------------------------------------------------
(* Python dicts *)

DictKeys(d) == {d[i][1] : i \in 1..Len(d)}

DictHas(d, k) == k \in DictKeys(d)

DictGet(d, k) == d[CHOOSE i \in 1..Len(d) : d[i][1] = k][2]

\* d[k] = v: a new key is appended, a known key keeps its place
DictSet(d, k, v) ==
    IF DictHas(d, k)
    THEN [i \in 1..Len(d) |-> IF d[i][1] = k THEN <<k, v>> ELSE d[i]]
    ELSE Append(d, <<k, v>>)

\* {k: v for (k, v) in pairs}
RECURSIVE DictOf(_)
DictOf(pairs) ==
    IF pairs = <<>> THEN <<>>
    ELSE DictSet(DictOf(SubSeq(pairs, 1, Len(pairs) - 1)),
                 pairs[Len(pairs)][1], pairs[Len(pairs)][2])

-----------------------------------------------------------------------------
(* The pure helpers of update_features.py *)

\* re.sub(r'', '', xml_text): the pattern is empty, so every match is the
\* empty text between two characters and is replaced by the empty text
clean_xml_comments(xml_text) == xml_text

\* LookupChain that lets a later table override an earlier one
RECURSIVE LookupChain_LastWins(_, _)
LookupChain_LastWins(key, string_dicts) ==
    IF string_dicts = <<>>
    THEN <<"<", "M", "I", "S", "S", "I", "N", "G", " ">> \o key \o <<">">>
    ELSE IF DictHas(string_dicts[Len(string_dicts)], key)
         THEN DictGet(string_dicts[Len(string_dicts)], key)
         ELSE LookupChain_LastWins(key, SubSeq(string_dicts, 1, Len(string_dicts) - 1))

\* the scan `for d in string_dicts` of resolve_string
RECURSIVE LookupChain(_, _)
LookupChain(key, string_dicts) ==
    IF string_dicts = <<>>
    THEN <<"<", "M", "I", "S", "S", "I", "N", "G", " ">> \o key \o <<">">>
    ELSE IF DictHas(Head(string_dicts), key)
         THEN DictGet(Head(string_dicts), key)
         ELSE LookupChain(key, Tail(string_dicts))

resolve_string(ref, string_dicts) ==
    IF ~Truthy(ref) \/ ~StartsWith(ref, StringSigil)
    THEN (IF Truthy(ref) THEN ref ELSE EmptyStr)
    ELSE LookupChain(AfterFirst(ref, <<"/">>), string_dicts)

clean_display_text(text) ==
    IF ~Truthy(text) THEN EmptyStr
    ELSE ReplaceAll(BeforeFirst(text, EscapedNewline), EscapedQuote, Apostrophe)

\* the condition of line 171
NeedsOverride(pref_summary) ==
    Contains(pref_summary, FormatPlaceholder) \/ ~Truthy(pref_summary)

-----------------------------------------------------------------------------
(* Bounds of the model *)

\* most branches the branch listing of GitHub returns
MaxBranches == 2

\* most Preference elements of evolution_settings.xml
MaxMainPrefs == 2

\* most PreferenceCategory elements of a fragment
MaxSubCats == 2

\* most children of a PreferenceCategory
MaxPrefs == 2

\* the sequences over S of length at most n
SeqsUpTo(S, n) == UNION {[1..m -> S] : m \in 0..n}

-----------------------------------------------------------------------------
(* The environment: the remote repositories, the operator at the prompt,   *)
(* the file replacements.json.  A fetched file is [st, doc]: st says       *)
(* whether the request failed ("absent"), returned the empty text          *)
(* ("empty"), text that is not well-formed XML ("malformed") or a document *)
(* ("ok"), and doc is the element tree ElementTree builds from it.         *)

RefT == StringSigil \o <<"t">>

RefS == StringSigil \o <<"s">>

File(st, doc) == [st |-> st, doc |-> doc]

\* <string name=...> elements of the strings files: <<name, text>>
StrDocA == << <<(<<"t">>), (<<"A">>)>>, <<(<<"s">>), None>> >>

StrDocB == << <<(<<"t">>), (<<"B">>)>>, <<(<<"s">>), (<<"c", "%", "s">>)>> >>

StrDocC == << <<(<<"s">>), (<<"d", "\\", "'", "\\", "n", "e">>)>> >>

StrFileChoices ==
    {File("absent", <<>>), File("malformed", <<>>),
     File("ok", StrDocA), File("ok", StrDocB)}

DefaultStrs ==
    <<File("ok", StrDocA), File("absent", <<>>), File("ok", StrDocB),
      File("ok", StrDocC)>>

\* Preference elements of the top-level listing
ElAbout == [key |-> AboutKey, title |-> RefT, summary |-> None]

ElD == [key |-> <<"d">>, title |-> RefT, summary |-> RefS]

ElE == [key |-> <<"e">>, title |-> <<"U">>, summary |-> None]

MainElems == {ElAbout, ElD, ElE}

FragKeys == {AboutKey, <<"d">>, <<"e">>}

ListingChoices ==
    {File("absent", <<>>), File("empty", <<>>), File("malformed", <<>>)}
    \cup {File("ok", l) : l \in SeqsUpTo(MainElems, MaxMainPrefs)}

\* children of a PreferenceCategory
PrefK == [key |-> <<"k">>, title |-> <<"T">>, summary |-> None]

PrefK2 == [key |-> <<"k">>, title |-> <<"U">>, summary |-> RefS]

PrefNoKey == [key |-> None, title |-> <<"T">>, summary |-> <<"x", "%", "s">>]

PrefJ == [key |-> <<"j">>, title |-> RefT, summary |-> <<"o", "k">>]

PrefNoTitle == [key |-> <<"j">>, title |-> None, summary |-> None]

PrefElems == {PrefK, PrefK2, PrefNoKey, PrefJ, PrefNoTitle}

SubCat(title, children) == [title |-> title, children |-> children]

SubCatElems ==
    {SubCat(RefT, <<PrefK>>), SubCat(<<"A">>, <<PrefJ>>), SubCat(None, <<>>)}

\* a fragment whose second sub-category is titled "summary"
SummaryTitledDoc ==
    <<SubCat(<<"A">>, <<PrefJ>>), SubCat(SummaryField, <<PrefK2>>)>>

DefaultFragDoc == <<SubCat(RefT, <<PrefK, PrefJ>>)>>

DefaultFrags == [k \in FragKeys |-> File("ok", DefaultFragDoc)]

FragStatusChoices ==
    {File("absent", <<>>), File("empty", <<>>), File("malformed", <<>>),
     File("ok", <<>>), File("ok", DefaultFragDoc)}

World(main, strs, frags) == [main |-> main, strs |-> strs, frags |-> frags]

\* the strings files vary
WorldsStrings ==
    {World(File("ok", <<ElD>>), s, DefaultFrags) : s \in [1..4 -> StrFileChoices]}

\* the top-level listing varies
WorldsListing ==
    {World(m, DefaultStrs, DefaultFrags) : m \in ListingChoices}

\* the state of the fragment files varies
WorldsFragStatus ==
    {World(File("ok", <<ElD, ElE>>), DefaultStrs, f) :
        f \in [FragKeys -> FragStatusChoices]}

\* the preferences of one sub-category vary
WorldsPrefs ==
    {World(File("ok", <<ElD>>), DefaultStrs,
           [k \in FragKeys |-> File("ok", <<SubCat(RefT, c)>>)]) :
        c \in SeqsUpTo(PrefElems, MaxPrefs)}

\* the sub-categories of one fragment vary
WorldsSubCats ==
    {World(File("ok", <<ElD>>), DefaultStrs, [k \in FragKeys |-> File("ok", d)]) :
        d \in SeqsUpTo(SubCatElems, MaxSubCats) \cup {SummaryTitledDoc}}

\* children whose summaries hold other format placeholders of strings.xml
PrefPercentD ==
    [key |-> <<"j">>, title |-> <<"U">>, summary |-> <<"w", " ", "%", "d">>]

PrefPositional ==
    [key |-> <<"j">>, title |-> <<"T">>, summary |-> <<"%", "1", "$", "s">>]

\* the summaries hold placeholders other than "%s"
WorldsPlaceholders ==
    {World(File("ok", <<ElD>>), DefaultStrs,
           [k \in FragKeys |-> File("ok", <<SubCat(RefT, c)>>)]) :
        c \in {<<PrefPercentD>>, <<PrefPositional>>, <<PrefJ, PrefPositional>>}}

Worlds ==
    WorldsStrings \cup WorldsListing \cup WorldsFragStatus \cup WorldsPrefs
    \cup WorldsSubCats \cup WorldsPlaceholders

NoWorld == World(File("absent", <<>>), <<>>, <<>>)

\* what the operator may type at the prompt
Replies == {EmptyStr, Space, <<"x">>, <<" ", "x">>}

\* replacements.json before the run: [st, doc], doc the members of the object
DiskChoices ==
    {File("absent", <<>>), File("malformed", <<>>), File("ok", <<>>),
     File("ok", << <<(<<"k">>), (<<"o">>)>> >>)}

-----------------------------------------------------------------------------
(* Fetching and parsing *)

\* fetch_file_content on the files scrape_features asks for; a file whose
\* st is "absent" stands for the None of a failed request
FetchListing == remote.main

\* i = 1: res/values/evolution_strings.xml of packages_apps_Evolver;
\* i = 2, 3, 4: the files of packages_apps_Settings listed at lines 120-122
FetchStrings(i) == remote.strs[i]

FetchFragment(key) == remote.frags[key]

\* `if content:` on what fetch_file_content returned
HasContent(content) == content.st \notin {"absent", "empty"}

\* ET.fromstring raises ParseError on text that is not well-formed
ParseError(content) == content.st # "ok"

\* parse_strings_xml: name -> text or "", a repeated name keeps its last text
parse_strings_xml(xml_text) ==
    DictOf([i \in 1..Len(xml_text.doc) |->
              <<xml_text.doc[i][1],
                IF xml_text.doc[i][2] = None THEN EmptyStr ELSE xml_text.doc[i][2]>>])

Descriptor(elem) ==
    [key |-> elem.key, title_key |-> elem.title, summary_key |-> elem.summary]

\* lines 100-106
ParseListing(content) ==
    [i \in 1..Len(clean_xml_comments(content).doc) |->
        Descriptor(clean_xml_comments(content).doc[i])]

\* TitledPrefs that inserts at the front: the children come out reversed
RECURSIVE TitledPrefs_Reversed(_)
TitledPrefs_Reversed(children) ==
    IF children = <<>> THEN <<>>
    ELSE TitledPrefs_Reversed(Tail(children))
         \o (IF Truthy(Head(children).title) THEN <<Descriptor(Head(children))>>
             ELSE <<>>)

\* children with a title, in document order (lines 44-51)
RECURSIVE TitledPrefs(_)
TitledPrefs(children) ==
    IF children = <<>> THEN <<>>
    ELSE (IF Truthy(Head(children).title) THEN <<Descriptor(Head(children))>>
          ELSE <<>>) \o TitledPrefs(Tail(children))

parse_preference_fragment_xml(xml_text) ==
    [i \in 1..Len(clean_xml_comments(xml_text).doc) |->
        [title_key |-> clean_xml_comments(xml_text).doc[i].title,
         preferences |-> TitledPrefs(clean_xml_comments(xml_text).doc[i].children)]]

\* load_replacements
load_replacements(file) == IF file.st = "ok" THEN DictOf(file.doc) ELSE <<>>

\* json.dump writes the key None as "null"
JsonKey(k) == IF k = None THEN <<"n", "u", "l", "l">> ELSE k

\* save_replacements: the file after json.dump(replacements)
save_replacements(store) ==
    File("ok", [i \in 1..Len(store) |-> <<JsonKey(store[i][1]), store[i][2]>>])

-----------------------------------------------------------------------------
(* The run: main() and scrape_features() *)

\* the chain of string tables every resolve_string call of scrape_features gets
Chain == <<strings_dict>> \o fallback_strings

Resolve(ref) == clean_display_text(resolve_string(ref, Chain))

\* values of a category's entry: a text ("summary") or a dict (a sub-category)
StrVal(s) == [tag |-> "str", str |-> s, map |-> <<>>]

MapVal(d) == [tag |-> "map", str |-> <<>>, map |-> d]

NoEntry == <<EmptyStr, <<>>>>

Init ==
    /\ pc = "start"
    /\ branches = 0
    /\ bi = 0
    /\ disk \in DiskChoices
    /\ replacements = <<>>
    /\ files = {}
    /\ remote = NoWorld
    /\ main_preferences = <<>>
    /\ strings_dict = <<>>
    /\ fallback_strings = <<>>
    /\ fi = 0
    /\ mi = 0
    /\ processed_categories_data = <<>>
    /\ output_data_for_branch = <<>>
    /\ ci = 0
    /\ si = 0
    /\ pi = 0
    /\ current_main_cat_entry = NoEntry
    /\ sub_cat_features = <<>>
    /\ reply = EmptyStr
    /\ fetched = {}
    /\ skipped = {}
    /\ snoozed = {}
    /\ raw_text = EmptyStr
    /\ clean_text = EmptyStr

MainVars == <<branches, bi, disk, replacements, files>>

FetchVars == <<remote, main_preferences, strings_dict, fallback_strings, fi, mi,
               processed_categories_data, fetched>>

BuildVars == <<output_data_for_branch, ci, si, pi, current_main_cat_entry,
               sub_cat_features>>

\* lines 206-213: the branch listing, or sys.exit(1)
DiscoverBranches ==
    /\ pc = "start"
    /\ \/ \E n \in 0..MaxBranches : branches' = n /\ pc' = "load"
       \/ branches' = branches /\ pc' = "exit"
    /\ UNCHANGED <<bi, disk, replacements, files, reply, skipped, snoozed>>
    /\ UNCHANGED <<FetchVars, BuildVars>>
    /\ UNCHANGED TextVars

\* line 215
LoadReplacements ==
    /\ pc = "load"
    /\ replacements' = load_replacements(disk)
    /\ bi' = 1
    /\ pc' = "loop"
    /\ UNCHANGED <<branches, disk, files, reply, skipped, snoozed, FetchVars, BuildVars>>
    /\ UNCHANGED TextVars

\* the frame of a scrape_features call before its first statement
FreshFrame ==
    /\ main_preferences' = <<>>
    /\ strings_dict' = <<>>
    /\ fallback_strings' = <<>>
    /\ fi' = 0
    /\ mi' = 0
    /\ processed_categories_data' = <<>>
    /\ output_data_for_branch' = <<>>
    /\ ci' = 0
    /\ si' = 0
    /\ pi' = 0
    /\ current_main_cat_entry' = NoEntry
    /\ sub_cat_features' = <<>>
    /\ reply' = EmptyStr
    /\ fetched' = {}

\* line 217: the call for the next branch, whose repositories hold one of
\* Worlds, or the end of the loop
NextBranch ==
    /\ pc = "loop"
    /\ IF bi <= branches
       THEN /\ pc' = "fetch_main"
            /\ remote' \in Worlds
       ELSE /\ pc' = "save"
            /\ remote' = remote
    /\ UNCHANGED <<MainVars, reply, skipped, snoozed>>
    /\ UNCHANGED <<main_preferences, strings_dict, fallback_strings, fi, mi,
                   processed_categories_data, fetched, BuildVars>>
    /\ UNCHANGED TextVars

\* `return` of scrape_features: its frame is gone, main is back in its loop
Return ==
    /\ pc' = "loop"
    /\ bi' = bi + 1
    /\ remote' = NoWorld
    /\ FreshFrame

\* an uncaught exception leaves scrape_features and main: the process ends
Raise ==
    /\ pc' = "crashed"
    /\ UNCHANGED <<bi, remote, main_preferences, strings_dict, fallback_strings,
                   fi, mi, processed_categories_data, fetched, BuildVars, reply>>

\* lines 93-110
FetchMain ==
    /\ pc = "fetch_main"
    /\ IF ~HasContent(FetchListing)
       THEN Return
       ELSE IF ParseError(clean_xml_comments(FetchListing))
       THEN Raise
       ELSE IF ParseListing(FetchListing) = <<>>
       THEN Return
       ELSE /\ main_preferences' = ParseListing(FetchListing)
            /\ pc' = "fetch_strings"
            /\ UNCHANGED <<bi, remote, strings_dict, fallback_strings, fi, mi,
                           processed_categories_data, fetched, BuildVars, reply>>
    /\ UNCHANGED <<branches, disk, replacements, files, skipped, snoozed>>
    /\ UNCHANGED TextVars

\* lines 112-117
FetchBranchStrings ==
    /\ pc = "fetch_strings"
    /\ IF ~HasContent(FetchStrings(1))
       THEN strings_dict' = <<>> /\ pc' = "fetch_fallback"
       ELSE IF ParseError(FetchStrings(1))
       THEN strings_dict' = <<>> /\ pc' = "crashed"
       ELSE strings_dict' = parse_strings_xml(FetchStrings(1))
            /\ pc' = "fetch_fallback"
    /\ fallback_strings' = <<>>
    /\ fi' = 1
    /\ UNCHANGED <<MainVars, reply, skipped, snoozed, BuildVars>>
    /\ UNCHANGED <<remote, main_preferences, mi, processed_categories_data, fetched>>
    /\ UNCHANGED TextVars

\* the number of files listed at lines 119-123
NumFallbackFiles == 3

\* lines 119-126, one file of the list per step
FetchFallback ==
    /\ pc = "fetch_fallback"
    /\ IF fi > NumFallbackFiles
       THEN /\ pc' = "main_pref"
            /\ mi' = 1
            /\ UNCHANGED <<fallback_strings, fi>>
       ELSE /\ mi' = mi
            /\ IF ~HasContent(FetchStrings(fi + 1))
               THEN /\ fallback_strings' = fallback_strings
                    /\ fi' = fi + 1
                    /\ pc' = pc
               ELSE IF ParseError(FetchStrings(fi + 1))
               THEN /\ UNCHANGED <<fallback_strings, fi>>
                    /\ pc' = "crashed"
               ELSE /\ fallback_strings' =
                          Append(fallback_strings, parse_strings_xml(FetchStrings(fi + 1)))
                    /\ fi' = fi + 1
                    /\ pc' = pc
    /\ UNCHANGED <<MainVars, reply, skipped, snoozed, BuildVars>>
    /\ UNCHANGED <<remote, main_preferences, strings_dict,
                   processed_categories_data, fetched>>
    /\ UNCHANGED TextVars

\* IsExcluded without the test of line 131
IsExcluded_Never(key) == FALSE

\* line 131: the category that is left out
IsExcluded(key) == key = AboutKey

\* lines 140-144: the sub-categories of a category whose fragment is well-formed
\* or has no content
SubPreferencesOf(fragment_content) ==
    IF HasContent(fragment_content)
    THEN parse_preference_fragment_xml(fragment_content)
    ELSE <<>>

\* FragmentRaises that parses whatever was returned, None included
FragmentRaises_OnMissing(fragment_content) ==
    ~HasContent(fragment_content) \/ ParseError(clean_xml_comments(fragment_content))

\* lines 141-142: parse_preference_fragment_xml is called and raises
FragmentRaises(fragment_content) ==
    HasContent(fragment_content) /\ ParseError(clean_xml_comments(fragment_content))

\* lines 146-151
CategoryData(main_pref, sub_preferences_data) ==
    [key |-> main_pref.key,
     title |-> Resolve(main_pref.title_key),
     summary |-> Resolve(main_pref.summary_key),
     sub_preferences |-> sub_preferences_data]

\* lines 128-151, one element of main_preferences per step
ProcessMainPref ==
    /\ pc = "main_pref"
    /\ IF mi > Len(main_preferences)
       THEN /\ pc' = "main_cat"
            /\ ci' = 1
            /\ output_data_for_branch' = <<>>
            /\ UNCHANGED <<mi, processed_categories_data, fetched>>
       ELSE /\ UNCHANGED <<ci, output_data_for_branch>>
            /\ IF IsExcluded(main_preferences[mi].key)
               THEN /\ mi' = mi + 1
                    /\ pc' = pc
                    /\ UNCHANGED <<processed_categories_data, fetched>>
               ELSE /\ fetched' = fetched \cup {main_preferences[mi].key}
                    /\ IF FragmentRaises(FetchFragment(main_preferences[mi].key))
                       THEN /\ pc' = "crashed"
                            /\ UNCHANGED <<mi, processed_categories_data>>
                       ELSE /\ processed_categories_data' =
                                 Append(processed_categories_data,
                                        CategoryData(main_preferences[mi],
                                            SubPreferencesOf(FetchFragment(
                                                main_preferences[mi].key))))
                            /\ mi' = mi + 1
                            /\ pc' = pc
    /\ UNCHANGED <<MainVars, reply, skipped, snoozed>>
    /\ UNCHANGED <<remote, main_preferences, strings_dict, fallback_strings, fi>>
    /\ UNCHANGED <<si, pi, current_main_cat_entry, sub_cat_features>>
    /\ UNCHANGED TextVars

\* lines 155-160: {main_cat_title: {"summary": main_cat["summary"]}}
NewCategoryEntry(main_cat) ==
    <<main_cat.title, << <<SummaryField, StrVal(main_cat.summary)>> >> >>

\* lines 154-160: the next category, or the end of the loop
BuildMainCat ==
    /\ pc = "main_cat"
    /\ IF ci > Len(processed_categories_data)
       THEN /\ pc' = "write"
            /\ UNCHANGED <<current_main_cat_entry, si>>
       ELSE /\ current_main_cat_entry' =
                  NewCategoryEntry(processed_categories_data[ci])
            /\ si' = 1
            /\ pc' = "sub_cat"
    /\ UNCHANGED <<MainVars, reply, skipped, snoozed, FetchVars>>
    /\ UNCHANGED <<output_data_for_branch, ci, pi, sub_cat_features>>
    /\ UNCHANGED TextVars

\* the sub-category and the preference the loops stand at
CurSubCat == processed_categories_data[ci].sub_preferences[si]

CurPref == CurSubCat.preferences[pi]

\* lines 162-164 and 187: the next sub-category, or the category is appended
BuildSubCat ==
    /\ pc = "sub_cat"
    /\ IF si > Len(processed_categories_data[ci].sub_preferences)
       THEN /\ output_data_for_branch' =
                  Append(output_data_for_branch, current_main_cat_entry)
            /\ ci' = ci + 1
            /\ pc' = "main_cat"
            /\ UNCHANGED <<sub_cat_features, pi>>
       ELSE /\ sub_cat_features' = <<>>
            /\ pi' = 1
            /\ pc' = "pref"
            /\ UNCHANGED <<output_data_for_branch, ci>>
    /\ UNCHANGED <<MainVars, reply, skipped, snoozed, FetchVars>>
    /\ UNCHANGED <<si, current_main_cat_entry>>
    /\ UNCHANGED TextVars

\* line 185: current_main_cat_entry[main_cat_title][sub_cat_title] = sub_cat_features
WithSubCat(entry, sub_cat_title, features) ==
    <<entry[1], DictSet(entry[2], sub_cat_title, MapVal(features))>>

\* HasOverride that never finds the key: every unresolved summary prompts
HasOverride_Never(store, pref_key) == FALSE

\* line 172: `pref_key in replacements`
HasOverride(store, pref_key) == DictHas(store, pref_key)

\* lines 166-175, 183 and 185: one preference per step, up to the prompt
BuildPref ==
    /\ pc = "pref"
    /\ IF pi > Len(CurSubCat.preferences)
       THEN /\ current_main_cat_entry' =
                  WithSubCat(current_main_cat_entry, Resolve(CurSubCat.title_key),
                             sub_cat_features)
            /\ si' = si + 1
            /\ pc' = "sub_cat"
            /\ UNCHANGED <<sub_cat_features, pi>>
       ELSE /\ UNCHANGED <<current_main_cat_entry, si>>
            /\ IF ~NeedsOverride(Resolve(CurPref.summary_key))
               THEN /\ sub_cat_features' =
                          DictSet(sub_cat_features, Resolve(CurPref.title_key),
                                  Resolve(CurPref.summary_key))
                    /\ pi' = pi + 1
                    /\ pc' = pc
               ELSE IF HasOverride(replacements, CurPref.key)
               THEN /\ sub_cat_features' =
                          DictSet(sub_cat_features, Resolve(CurPref.title_key),
                                  DictGet(replacements, CurPref.key))
                    /\ pi' = pi + 1
                    /\ pc' = pc
               ELSE /\ pc' = "prompt"
                    /\ UNCHANGED <<sub_cat_features, pi>>
    /\ UNCHANGED <<MainVars, reply, skipped, snoozed, FetchVars>>
    /\ UNCHANGED <<output_data_for_branch, ci>>
    /\ UNCHANGED TextVars

\* lines 177-181: the summary taken for the stripped reply
SummaryFor(new_summary) ==
    IF new_summary # EmptyStr THEN new_summary ELSE Space

\* Record with the assignment of line 179 left out
Record_Dropped(store, pref_key, new_summary) == store

\* Record without the test of line 177: the empty text is recorded too
Record_Always(store, pref_key, new_summary) ==
    DictSet(store, pref_key, new_summary)

\* lines 177-179: the store after the stripped reply
Record(store, pref_key, new_summary) ==
    IF new_summary # EmptyStr THEN DictSet(store, pref_key, new_summary) ELSE store

\* lines 176-183: the operator answers the prompt
PromptReply ==
    /\ pc = "prompt"
    /\ \E r \in Replies :
          /\ reply' = r
          /\ replacements' = Record(replacements, CurPref.key, Strip(r))
          /\ sub_cat_features' =
                DictSet(sub_cat_features, Resolve(CurPref.title_key),
                        SummaryFor(Strip(r)))
          /\ skipped' = IF Strip(r) = EmptyStr
                        THEN skipped \cup {CurPref.key}
                        ELSE skipped
          /\ snoozed' = IF Strip(r) = EmptyStr
                        THEN snoozed \cup {CurPref.key}
                        ELSE snoozed \ {CurPref.key}
    /\ pi' = pi + 1
    /\ pc' = "pref"
    /\ UNCHANGED <<branches, bi, disk, files, FetchVars>>
    /\ UNCHANGED <<output_data_for_branch, ci, si, current_main_cat_entry>>
    /\ UNCHANGED TextVars

\* WriteBranch that also persists the store, once per branch
WriteBranch_Saving ==
    /\ pc = "write"
    /\ files' = files \cup {bi}
    /\ disk' = save_replacements(replacements)
    /\ Return
    /\ UNCHANGED <<branches, replacements, skipped, snoozed>>
    /\ UNCHANGED TextVars

\* lines 189-197: branches/<branch>.json is written
WriteBranch ==
    /\ pc = "write"
    /\ files' = files \cup {bi}
    /\ Return
    /\ UNCHANGED <<branches, disk, replacements, skipped, snoozed>>
    /\ UNCHANGED TextVars

\* lines 220-221
SaveReplacements ==
    /\ pc = "save"
    /\ disk' = save_replacements(replacements)
    /\ pc' = "done"
    /\ UNCHANGED <<branches, bi, replacements, files, reply, skipped, snoozed>>
    /\ UNCHANGED <<FetchVars, BuildVars>>
    /\ UNCHANGED TextVars

Next ==
    \/ DiscoverBranches
    \/ LoadReplacements
    \/ NextBranch
    \/ FetchMain
    \/ FetchBranchStrings
    \/ FetchFallback
    \/ ProcessMainPref
    \/ BuildMainCat
    \/ BuildSubCat
    \/ BuildPref
    \/ PromptReply
    \/ WriteBranch
    \/ SaveReplacements

Spec == Init /\ [][Next]_vars

-----------------------------------------------------------------------------
(* The override protocol (lines 171-183) *)

\* the process stands at a preference of the loop of line 166
AtPref == pc = "pref" /\ pi <= Len(CurSubCat.preferences)

\* the step is the answer to the prompt for CurPref
Answered == pc = "prompt" /\ pc' = "pref"

\* the summary sub_cat_features holds for CurPref after the step
EmittedSummary == DictGet(sub_cat_features', Resolve(CurPref.title_key))

\* store2 is store with key mapped to text and nothing else changed
MapsAlso(store, store2, key, text) ==
    /\ DictKeys(store2) = DictKeys(store) \cup {key}
    /\ DictGet(store2, key) = text
    /\ \A k \in DictKeys(store) \ {key} : DictGet(store2, k) = DictGet(store, k)

\* C1 as stated: whenever the reply to the prompt is not empty, the summary
\* emitted for the preference is the reply and the store maps the key of the
\* preference to the reply
C1_AsStated ==
    [][(Answered /\ reply' # EmptyStr) =>
          /\ EmittedSummary = reply'
          /\ MapsAlso(replacements, replacements', CurPref.key, reply')]_vars

\* C1 amended: whenever the reply without its leading and trailing white
\* space is not empty, the summary emitted for the preference is that stripped
\* reply and the store maps the key of the preference to it, its other
\* entries unchanged (so an empty store becomes exactly key -> stripped reply)
C1_StrippedReplyRecorded ==
    [][(Answered /\ Strip(reply') # EmptyStr) =>
          /\ EmittedSummary = Strip(reply')
          /\ MapsAlso(replacements, replacements', CurPref.key, Strip(reply'))
          /\ (replacements = <<>> =>
                 replacements' = << <<CurPref.key, Strip(reply')>> >>)]_vars

\* the preference before the one the loop stands at
PrevPref == CurSubCat.preferences[pi - 1]

\* a reply with leading white space was just recorded without it, into a
\* store that was empty
C1_Witness ==
    /\ pc = "pref"
    /\ pi > 1
    /\ reply = <<" ", "x">>
    /\ replacements = << <<PrevPref.key, (<<"x">>)>> >>
    /\ DictGet(sub_cat_features, Resolve(PrevPref.title_key)) = <<"x">>

C3_StoredTextUsed ==
    [][(AtPref /\ NeedsOverride(Resolve(CurPref.summary_key))
          /\ DictHas(replacements, CurPref.key)) =>
          /\ pc' = "pref"
          /\ pi' = pi + 1
          /\ EmittedSummary = DictGet(replacements, CurPref.key)
          /\ replacements' = replacements]_vars

\* in a later branch, with no prompt shown in this call, a preference got the
\* text a reply recorded while an earlier branch was processed
C3_Witness ==
    /\ pc = "pref"
    /\ bi >= 2
    /\ pi > 1
    /\ reply = EmptyStr
    /\ NeedsOverride(Resolve(PrevPref.summary_key))
    /\ DictHas(replacements, PrevPref.key)
    /\ DictGet(replacements, PrevPref.key) = <<"x">>
    /\ ~DictHas(load_replacements(disk), PrevPref.key)
    /\ DictGet(sub_cat_features, Resolve(PrevPref.title_key)) = <<"x">>

-----------------------------------------------------------------------------
(* Persistence of the store (lines 215-220) *)

\* C4: the store is loaded in one step, before the first branch; the file
\* replacements.json is written only by the step that follows the last
\* branch and ends the run, so it is written once in a run that ends and
\* not at all, keeping its content, in a run that stops earlier
C4_SingleFlush ==
    [][/\ (pc = "load" <=> (pc' = "loop" /\ bi' = 1))
       /\ pc = "load" => replacements' = load_replacements(disk)
       /\ disk' # disk => (pc = "save" /\ bi > branches)
       /\ pc = "save" =>
             (disk' = save_replacements(replacements) /\ pc' = "done")
       /\ pc \in {"done", "crashed", "exit"} => disk' = disk]_vars

\* a run stopped by an exception with an override in memory that
\* replacements.json does not hold
C4_Witness ==
    /\ pc = "crashed"
    /\ bi >= 2
    /\ \E k \in DictKeys(replacements) :
          ~DictHas(load_replacements(disk), k)

-----------------------------------------------------------------------------
(* Malformed XML (lines 98, 117, 126, 142) *)

\* text was returned and it is not well-formed XML
Malformed(file) == file.st = "malformed"

\* C5: when the top-level listing of a branch is malformed XML, the call
\* for that branch returns without writing a file and main goes on with the
\* next branch (and so saves the store after the last one)
C5_AsStated ==
    [][(pc = "fetch_main" /\ Malformed(remote.main)) =>
          (pc' = "loop" /\ bi' = bi + 1 /\ files' = files)]_vars

\* C6: a malformed strings file gives an empty table (branch file) or no
\* table (fallback file), a malformed fragment gives its category an empty
\* list of sub-categories, and the call goes on with the next file
C6_AsStated ==
    [][/\ (pc = "fetch_strings" /\ Malformed(remote.strs[1])) =>
             (pc' = "fetch_fallback" /\ strings_dict' = <<>>)
       /\ (pc = "fetch_fallback" /\ fi <= NumFallbackFiles
             /\ Malformed(remote.strs[fi + 1])) =>
             (pc' = "fetch_fallback" /\ fi' = fi + 1
                /\ fallback_strings' = fallback_strings)
       /\ (pc = "main_pref" /\ mi <= Len(main_preferences)
             /\ main_preferences[mi].key # AboutKey
             /\ Malformed(remote.frags[main_preferences[mi].key])) =>
             (/\ pc' = "main_pref"
              /\ mi' = mi + 1
              /\ Len(processed_categories_data') = Len(processed_categories_data) + 1
              /\ processed_categories_data'[Len(processed_categories_data')]
                    .sub_preferences = <<>>)]_vars

-----------------------------------------------------------------------------
(* The chain of string tables (lines 58-66, 112-126) *)

\* the strings files are all fetched: every resolve_string call comes later
PastStrings == pc \in {"main_pref", "main_cat", "sub_cat", "pref", "prompt", "write"}

StrKeys == {<<"t">>, <<"s">>, <<"u">>}

\* the places in the chain of the tables that hold key k
Holders(k) == {i \in 1..Len(Chain) : DictHas(Chain[i], k)}

Earliest(k) == CHOOSE i \in Holders(k) : \A j \in Holders(k) : i <= j

\* the table of the i-th strings file, as its <string> elements give it
TableOfFile(i) == parse_strings_xml(remote.strs[i])

Fetchable(i) == HasContent(remote.strs[i])

\* the fallback files that were fetched, in the order of lines 120-122
FetchedFallbacks == SelectSeq(<<2, 3, 4>>, Fetchable)

\* C7: a reference whose key is in two or more tables of the chain resolves
\* to the value of the earliest of them, and the chain is the table of the
\* branch (empty when its file was not fetched) followed by the tables of
\* the fallback files that were fetched, in the order they are listed
C7_EarliestTableWins ==
    PastStrings =>
       /\ strings_dict = (IF Fetchable(1) THEN TableOfFile(1) ELSE <<>>)
       /\ fallback_strings =
             [j \in 1..Len(FetchedFallbacks) |-> TableOfFile(FetchedFallbacks[j])]
       /\ \A k \in StrKeys :
             Cardinality(Holders(k)) >= 2 =>
                resolve_string(StringSigil \o k, Chain) = DictGet(Chain[Earliest(k)], k)

\* the first fallback file was not fetched, the other two were, and the key
\* "t" has one value in the table of the branch and another in a fallback
C7_Witness ==
    /\ pc = "main_pref"
    /\ remote.strs[2].st = "absent"
    /\ Len(fallback_strings) = 2
    /\ DictHas(strings_dict, <<"t">>)
    /\ DictHas(fallback_strings[1], <<"t">>)
    /\ DictGet(strings_dict, <<"t">>) # DictGet(fallback_strings[1], <<"t">>)
    /\ fallback_strings[1] # fallback_strings[2]

-----------------------------------------------------------------------------
(* The output tree (lines 128-187) *)

NotAbout(elem) == elem.key # AboutKey

\* the Preference elements of the listing that are not "about", in document
\* order
InputCategories == SelectSeq(remote.main.doc, NotAbout)

KeysSeq(d) == [n \in 1..Len(d) |-> d[n][1]]

\* C8: "about" is never a fetched fragment nor a processed category, the
\* prompt is never shown for a preference of it, and the finished tree has
\* one entry for each other element of the listing, none for "about"
C8_AboutExcluded ==
    /\ AboutKey \notin fetched
    /\ \A i \in 1..Len(processed_categories_data) :
          processed_categories_data[i].key # AboutKey
    /\ pc = "prompt" => processed_categories_data[ci].key # AboutKey
    /\ pc = "write" =>
          KeysSeq(output_data_for_branch) =
             [i \in 1..Len(InputCategories) |-> Resolve(InputCategories[i].title)]

\* a tree is finished for a listing that starts with "about" and has another
\* element
C8_Witness ==
    /\ pc = "write"
    /\ Len(remote.main.doc) >= 2
    /\ remote.main.doc[1].key = AboutKey
    /\ Len(output_data_for_branch) >= 1
    /\ fetched # {}

\* the entry of a category that has no sub-category
BareEntry(elem) ==
    <<Resolve(elem.title), << <<SummaryField, StrVal(Resolve(elem.summary))>> >> >>

\* C9: a category whose fragment request failed is processed with an empty
\* list of sub-categories and the loop goes on; the finished tree has an
\* entry for every category, the one of such a category holding its title
\* and summary only, and the step after the tree is finished writes the file
C9_MissingFragmentTolerated ==
    [][/\ (pc = "main_pref" /\ mi <= Len(main_preferences)
             /\ main_preferences[mi].key # AboutKey
             /\ ~HasContent(remote.frags[main_preferences[mi].key])) =>
             /\ pc' = "main_pref"
             /\ mi' = mi + 1
             /\ processed_categories_data' =
                   Append(processed_categories_data,
                          [key |-> main_preferences[mi].key,
                           title |-> Resolve(main_preferences[mi].title_key),
                           summary |-> Resolve(main_preferences[mi].summary_key),
                           sub_preferences |-> <<>>])
       /\ pc = "write" =>
             /\ Len(output_data_for_branch) = Len(InputCategories)
             /\ \A i \in 1..Len(InputCategories) :
                   ~HasContent(remote.frags[InputCategories[i].key]) =>
                      output_data_for_branch[i] = BareEntry(InputCategories[i])
             /\ files' = files \cup {bi}
             /\ pc' = "loop"]_vars

\* a tree is finished whose first category has no fragment and whose second
\* category has sub-categories
C9_Witness ==
    /\ pc = "write"
    /\ Len(InputCategories) = 2
    /\ remote.frags[InputCategories[1].key].st = "absent"
    /\ output_data_for_branch[1] = BareEntry(InputCategories[1])
    /\ Len(output_data_for_branch[2][2]) >= 2

\* the PreferenceCategory elements of the fragment of the i-th category
FragDoc(i) ==
    IF HasContent(remote.frags[InputCategories[i].key])
    THEN remote.frags[InputCategories[i].key].doc
    ELSE <<>>

HasTitle(elem) == Truthy(elem.title)

SubTitlesIn(i) == [j \in 1..Len(FragDoc(i)) |-> Resolve(FragDoc(i)[j].title)]

\* the keys of the i-th entry after "summary"
SubTitlesOut(i) == Tail(KeysSeq(output_data_for_branch[i][2]))

PrefTitlesIn(i, j) ==
    [n \in 1..Len(SelectSeq(FragDoc(i)[j].children, HasTitle)) |->
        Resolve(SelectSeq(FragDoc(i)[j].children, HasTitle)[n].title)]

PrefTitlesOut(i, j) ==
    KeysSeq(DictGet(output_data_for_branch[i][2], SubTitlesIn(i)[j]).map)

Distinct(seq) == \A a, b \in 1..Len(seq) : seq[a] = seq[b] => a = b

CatTitlesMirror ==
    KeysSeq(output_data_for_branch) =
       [i \in 1..Len(InputCategories) |-> Resolve(InputCategories[i].title)]

\* C10 as stated: in the finished tree the categories, the sub-categories
\* of each category and the preferences of each sub-category are those of
\* the input documents, in their order, whatever the titles
C10_AsStated ==
    pc = "write" =>
       /\ CatTitlesMirror
       /\ \A i \in 1..Len(InputCategories) :
             /\ SubTitlesOut(i) = SubTitlesIn(i)
             /\ \A j \in 1..Len(FragDoc(i)) : PrefTitlesOut(i, j) = PrefTitlesIn(i, j)

\* C10 amended: the categories are always in input order; the
\* sub-categories of a category are in input order when their titles differ
\* from each other and from "summary", and then the preferences of each
\* sub-category whose titles differ from each other are in input order
C10_OrderOfDistinctTitles ==
    pc = "write" =>
       /\ CatTitlesMirror
       /\ \A i \in 1..Len(InputCategories) :
             Distinct(<<SummaryField>> \o SubTitlesIn(i)) =>
                /\ SubTitlesOut(i) = SubTitlesIn(i)
                /\ \A j \in 1..Len(FragDoc(i)) :
                      Distinct(PrefTitlesIn(i, j)) =>
                         PrefTitlesOut(i, j) = PrefTitlesIn(i, j)

\* a tree is finished with a sub-category of two preferences whose titles
\* differ
C10_Witness ==
    /\ pc = "write"
    /\ Len(InputCategories) >= 1
    /\ Len(FragDoc(1)) >= 1
    /\ Len(PrefTitlesIn(1, 1)) >= 2
    /\ Distinct(PrefTitlesIn(1, 1))
    /\ Distinct(<<SummaryField>> \o SubTitlesIn(1))
    /\ PrefTitlesOut(1, 1) = PrefTitlesIn(1, 1)

-----------------------------------------------------------------------------
(* Which summaries enter the override protocol (line 171) *)

Digits == {"0", "1", "2", "3", "4", "5", "6", "7", "8", "9"}

\* the conversions of the format placeholders of Android string resources
Conversions == {"s", "d", "f", "x", "c"}

\* a format placeholder starts at place i of text: "%" and a conversion,
\* with an argument index ("1$") between them or without one
PlaceholderAt(text, i) ==
    /\ text[i] = "%"
    /\ \/ i + 1 <= Len(text) /\ text[i + 1] \in Conversions
       \/ /\ i + 3 <= Len(text)
          /\ text[i + 1] \in Digits
          /\ text[i + 2] = "$"
          /\ text[i + 3] \in Conversions

HasPlaceholder(text) == \E i \in 1..Len(text) : PlaceholderAt(text, i)

\* a summary that is empty or holds a placeholder that was not filled in
Unresolved(pref_summary) ==
    pref_summary = EmptyStr \/ HasPlaceholder(pref_summary)

\* C11: a preference whose resolved summary is empty or holds a format
\* placeholder, of any form, is looked up in the store and prompted for when
\* the store does not hold its key; any other summary is emitted as it is,
\* the step not going to the prompt and leaving the store alone
C11_AsStated ==
    [][AtPref =>
          /\ (Unresolved(Resolve(CurPref.summary_key))
                /\ ~DictHas(replacements, CurPref.key)) => pc' = "prompt"
          /\ (Unresolved(Resolve(CurPref.summary_key))
                /\ DictHas(replacements, CurPref.key)) =>
                EmittedSummary = DictGet(replacements, CurPref.key)
          /\ ~Unresolved(Resolve(CurPref.summary_key)) =>
                /\ pc' = "pref"
                /\ EmittedSummary = Resolve(CurPref.summary_key)
                /\ replacements' = replacements]_vars

-----------------------------------------------------------------------------
(* clean_xml_comments on its own (lines 17-18) *)

\* most pieces a text is made of
MaxPieces == 3

CommentOpen == <<"<", "!", "-", "-">>

CommentClose == <<"-", "-", ">">>

\* what the texts are made of: the comment delimiters, a letter, an element
Pieces == {CommentOpen, CommentClose, <<"a">>, <<"<", "b", "/", ">">>}

RECURSIVE Flatten(_)
Flatten(pieces) ==
    IF pieces = <<>> THEN <<>> ELSE Head(pieces) \o Flatten(Tail(pieces))

Texts == {Flatten(ps) : ps \in SeqsUpTo(Pieces, MaxPieces)}

\* re.sub(r'', repl, text): the empty pattern matches before every character
\* and at the end of the text, and each match is replaced by repl
RECURSIVE ReSubEmpty(_, _)
ReSubEmpty(repl, text) ==
    IF text = <<>> THEN repl
    ELSE repl \o <<Head(text)>> \o ReSubEmpty(repl, Tail(text))

\* clean_xml_comments on a text, character by character
CleanText(text) == ReSubEmpty(EmptyStr, text)

InitStrip ==
    /\ pc = "text"
    /\ raw_text \in Texts
    /\ clean_text = EmptyStr
    /\ branches = 0
    /\ bi = 0
    /\ disk = File("absent", <<>>)
    /\ replacements = <<>>
    /\ files = {}
    /\ remote = NoWorld
    /\ main_preferences = <<>>
    /\ strings_dict = <<>>
    /\ fallback_strings = <<>>
    /\ fi = 0
    /\ mi = 0
    /\ processed_categories_data = <<>>
    /\ output_data_for_branch = <<>>
    /\ ci = 0
    /\ si = 0
    /\ pi = 0
    /\ current_main_cat_entry = NoEntry
    /\ sub_cat_features = <<>>
    /\ reply = EmptyStr
    /\ fetched = {}
    /\ skipped = {}
    /\ snoozed = {}

\* clean_xml_comments(xml_text)
CleanOnce ==
    /\ pc = "text"
    /\ clean_text' = CleanText(raw_text)
    /\ pc' = "cleaned"
    /\ UNCHANGED <<raw_text, MainVars, FetchVars, BuildVars, reply, skipped, snoozed>>

\* clean_xml_comments applied to its own result
CleanAgain ==
    /\ pc = "cleaned"
    /\ clean_text' = CleanText(clean_text)
    /\ pc' = "cleaned_twice"
    /\ UNCHANGED <<raw_text, MainVars, FetchVars, BuildVars, reply, skipped, snoozed>>

NextStrip == CleanOnce \/ CleanAgain

SpecStrip == InitStrip /\ [][NextStrip]_vars

\* the place after the first CommentClose that starts at or after place i,
\* 0 when there is none
CloseAfter(text, i) ==
    IF FindFirst(SubSeq(text, i, Len(text)), CommentClose) = 0 THEN 0
    ELSE i - 1 + FindFirst(SubSeq(text, i, Len(text)), CommentClose)
         + Len(CommentClose)

\* text holds a comment: CommentOpen and, after it, CommentClose
HasComment(text) ==
    /\ FindFirst(text, CommentOpen) # 0
    /\ CloseAfter(text, FindFirst(text, CommentOpen) + Len(CommentOpen)) # 0

\* text with every span from a CommentOpen to the next CommentClose deleted
RECURSIVE WithoutComments(_)
WithoutComments(text) ==
    IF ~HasComment(text) THEN text
    ELSE SubSeq(text, 1, FindFirst(text, CommentOpen) - 1)
         \o WithoutComments(
               SubSeq(text,
                      CloseAfter(text, FindFirst(text, CommentOpen) + Len(CommentOpen)),
                      Len(text)))

\* C12: clean_xml_comments returns its argument with every comment span
\* deleted and the rest unchanged, so that the result holds no comment and
\* a text without a comment comes back as it was; applied to its own result
\* it changes nothing
C12_AsStated ==
    [][/\ pc = "text" =>
             /\ clean_text' = WithoutComments(raw_text)
             /\ ~HasComment(clean_text')
             /\ (~HasComment(raw_text) => clean_text' = raw_text)
       /\ pc = "cleaned" => clean_text' = clean_text]_vars

-----------------------------------------------------------------------------
(* The store during the run (lines 171-181, 215-220) *)

\* text neither starts nor ends with white space
Trimmed(text) == text = EmptyStr \/ (Head(text) # " " /\ text[Len(text)] # " ")

\* typed is text with white space, and nothing else, before and after it
PaddingOf(text, typed) ==
    \E i \in 0..Len(typed) :
        /\ i + Len(text) <= Len(typed)
        /\ SubSeq(typed, i + 1, i + Len(text)) = text
        /\ \A j \in 1..Len(typed) :
              (j <= i \/ j > i + Len(text)) => typed[j] = " "

\* the keys a step adds to the store
AddedKeys == DictKeys(replacements') \ DictKeys(replacements)

\* C13: once the store is loaded, no step of the run removes a key from it
\* or changes the text of a key it holds, loaded or recorded earlier; a key
\* is added only by the answer to a prompt, it is the key of the preference
\* prompted for, absent from the store until then, and its text is the
\* reply without its surrounding white space and is not empty
C13_StoreOnlyGrows ==
    [][pc # "load" =>
          /\ \A k \in DictKeys(replacements) :
                /\ DictHas(replacements', k)
                /\ DictGet(replacements', k) = DictGet(replacements, k)
          /\ \A k \in AddedKeys :
                /\ Answered
                /\ k = CurPref.key
                /\ ~DictHas(replacements, k)
                /\ DictGet(replacements', k) # EmptyStr
                /\ Trimmed(DictGet(replacements', k))
                /\ PaddingOf(DictGet(replacements', k), reply')]_vars

\* the store holds the entry it was loaded with, unchanged, and next to it
\* an entry just recorded from a reply typed with leading white space
C13_Witness ==
    /\ pc = "pref"
    /\ pi > 1
    /\ disk = File("ok", << <<(<<"k">>), (<<"o">>)>> >>)
    /\ reply = <<" ", "x">>
    /\ PrevPref.key # <<"k">>
    /\ replacements = << <<(<<"k">>), (<<"o">>)>>, <<PrevPref.key, (<<"x">>)>> >>

====
